---- MODULE Spec2Model ----
(***************************************************************************)
(* Model of src/rdb_protocol/query_language.hpp: the scope stack           *)
(* (variable_scope_t), the implicit value stack (implicit_value_t) and the *)
(* stream algebra (json_stream_t and its subclasses).                      *)
(*                                                                         *)
(* Stream objects live in a heap (a sequence of records, the index is the  *)
(* object's address), because boost::shared_ptr lets several objects refer *)
(* to one upstream or one multiplexer.  next() is an operator from a world *)
(* (heap plus observation history) to a result and a new world.            *)
(***************************************************************************)
EXTENDS Integers, Sequences, FiniteSets, TLC

(* ------------------------------ bounds -------------------------------- *)
\* longest source sequence given to an in_memory_stream_t
MaxLen == 4
\* longest substream a concat-map function returns
MaxSub == 2
\* most stream_multiplexer_t::stream_t consumers of one multiplexer
MaxConsumers == 2
\* most member streams of a union_stream_t
MaxStreams == 2
\* most operator objects built in a composition
MaxOps == 2
\* the evaluator stops calling next() on a stream after this many sentinels
MaxNulls == 2
\* deepest nesting explored: frames pushed, sentinels alive
MaxDepth == 2
\* number of distinct payload values of type T
NVals == 2

(* ------------------------------ values -------------------------------- *)
\* boost::shared_ptr<scoped_cJSON_t>(): the exhaustion sentinel
Null == 0
\* an empty boost::shared_ptr<json_stream_t>
NullPtr == 0
\* The stream classes never inspect a document, so a source of n documents
\* holds n different ones: base + 1, ..., base + n.
Docs == 1..MaxLen
DocSeq(base, n) == [i \in 1..n |-> base + i]
SourceSeqs == {DocSeq(0, n) : n \in 0..MaxLen}

VARIABLES
    heap,      \* the stream objects, by address
    hist,      \* observation: hist[a] = every result next() on object a has returned, in order
    given,     \* observation: given[a] = what object a was constructed with
               \* (the documents of an in_memory_stream_t, <<n>> for limit n)
    apps,      \* observation: apps[a] = the documents object a has applied its predicate
               \* or function to, in order
    roots,     \* the streams the evaluator holds (not owned by another operator)
    scopes,    \* variable_scope_t::scopes, front first
    binds,     \* observation: per name, the put_in_scope calls still in force, newest first
    iscopes,   \* implicit_value_t::scopes, front first
    marks,     \* observation: per frame of iscopes, what was observable before its push
    sentinels, \* the live new_scope_t and impliciter_t objects, innermost first
    exc,       \* number of lexical regions the exception in flight still has to leave
    ret,       \* the last scope operation and what it returned
    fault      \* "none", or the failed check that ended the program

streamVars == <<heap, hist, given, apps, roots>>
scopeVars == <<scopes, binds, iscopes, marks, sentinels, exc, ret, fault>>
vars == <<heap, hist, given, apps, roots, scopes, binds, iscopes, marks, sentinels, exc, ret, fault>>

World == [heap |-> heap, hist |-> hist, given |-> given, apps |-> apps]

\* operator new: the object gets the next address
Alloc(w, obj, s) ==
    [heap |-> Append(w.heap, obj), hist |-> Append(w.hist, <<>>),
     given |-> Append(w.given, s), apps |-> Append(w.apps, <<>>)]

\* observation: object a applies its predicate or function to json
Applied(w, a, json) == [w EXCEPT !.apps[a] = Append(@, json)]

DocsOf(h) == SelectSeq(h, LAMBDA x : x # Null)
NullCount(h) == Len(SelectSeq(h, LAMBDA x : x = Null))
IsPrefix(s, t) == Len(s) <= Len(t) /\ SubSeq(t, 1, Len(s)) = s

(* --------------------------- stream algebra --------------------------- *)
RECURSIVE StreamNext(_, _)
RECURSIVE MuxStreamNext(_, _)
RECURSIVE UnionNext(_, _)
RECURSIVE FilterNext(_, _)
RECURSIVE ConcatNext(_, _)

\* in_memory_stream_t(begin, end)
InMemoryObj(s) == [kind |-> "in_memory", data |-> s]

\* in_memory_stream_t::next
InMemoryNext(w, a) ==
    LET o == w.heap[a]
    IN  IF o.data = <<>>
        THEN [res |-> Null, w |-> w]
        ELSE [res |-> Head(o.data), w |-> [w EXCEPT !.heap[a].data = Tail(o.data)]]

\* stream_multiplexer_t(_stream)
MultiplexerObj(u) == [kind |-> "multiplexer", stream |-> u, data |-> <<>>]

\* stream_multiplexer_t::stream_t(_parent)
MuxStreamObj(m) == [kind |-> "mux_stream", parent |-> m, index |-> 0]

MaybeReadMore_dropping(w, m) ==
    LET r == StreamNext(w, w.heap[m].stream)
    IN  IF r.res # Null
        THEN LET r2 == StreamNext(r.w, w.heap[m].stream)
             IN  IF r2.res # Null
                 THEN [res |-> TRUE, w |-> [r2.w EXCEPT !.heap[m].data = Append(@, r2.res)]]
                 ELSE [res |-> FALSE, w |-> r2.w]
        ELSE [res |-> FALSE, w |-> r.w]

MaybeReadMore_prefetch(w, m) ==
    LET r == StreamNext(w, w.heap[m].stream)
    IN  IF r.res # Null
        THEN LET w1 == [r.w EXCEPT !.heap[m].data = Append(@, r.res)]
                 r2 == StreamNext(w1, w.heap[m].stream)
             IN  IF r2.res # Null
                 THEN [res |-> TRUE, w |-> [r2.w EXCEPT !.heap[m].data = Append(@, r2.res)]]
                 ELSE [res |-> TRUE, w |-> r2.w]
        ELSE [res |-> FALSE, w |-> r.w]

\* stream_multiplexer_t::maybe_read_more
MaybeReadMore(w, m) ==
    LET r == StreamNext(w, w.heap[m].stream)
    IN  IF r.res # Null
        THEN [res |-> TRUE, w |-> [r.w EXCEPT !.heap[m].data = Append(@, r.res)]]
        ELSE [res |-> FALSE, w |-> r.w]

MuxStreamNext_rewind(w, a) ==
    LET o == w.heap[a]
        p == o.parent
    IN  IF o.index >= Len(w.heap[p].data)
        THEN LET m == MaybeReadMore(w, p)
             IN  IF ~m.res
                 THEN [res |-> Null, w |-> [m.w EXCEPT !.heap[a].index = 0]]
                 ELSE MuxStreamNext(m.w, a)
        ELSE [res |-> w.heap[p].data[o.index + 1],
              w |-> [w EXCEPT !.heap[a].index = @ + 1]]

MuxStreamNext_back(w, a) ==
    LET o == w.heap[a]
        p == o.parent
    IN  IF o.index >= Len(w.heap[p].data)
        THEN LET m == MaybeReadMore(w, p)
             IN  IF ~m.res
                 THEN [res |-> Null, w |-> m.w]
                 ELSE MuxStreamNext(m.w, a)
        ELSE [res |-> w.heap[p].data[Len(w.heap[p].data)],
              w |-> [w EXCEPT !.heap[a].index = @ + 1]]

\* stream_multiplexer_t::stream_t::next; data[index] is data[index + 1] here,
\* sequences being 1-based
MuxStreamNext(w, a) ==
    LET o == w.heap[a]
        p == o.parent
    IN  IF o.index >= Len(w.heap[p].data)
        THEN LET m == MaybeReadMore(w, p)
             IN  IF ~m.res
                 THEN [res |-> Null, w |-> m.w]
                 ELSE MuxStreamNext(m.w, a)
        ELSE [res |-> w.heap[p].data[o.index + 1],
              w |-> [w EXCEPT !.heap[a].index = @ + 1]]

\* union_stream_t(_streams); hd is a position in streams, Len(streams) + 1 is end()
UnionObj(list) == [kind |-> "union", streams |-> list, hd |-> 1]

UnionNext_advancing(w, a) ==
    LET o == w.heap[a]
    IN  IF o.hd > Len(o.streams)
        THEN [res |-> Null, w |-> w]
        ELSE LET r == StreamNext(w, o.streams[o.hd])
                 w2 == [r.w EXCEPT !.heap[a].hd = @ + 1]
             IN  IF r.res # Null
                 THEN [res |-> r.res, w |-> w2]
                 ELSE UnionNext(w2, a)

\* union_stream_t::next
UnionNext(w, a) ==
    LET o == w.heap[a]
    IN  IF o.hd > Len(o.streams)
        THEN [res |-> Null, w |-> w]
        ELSE LET r == StreamNext(w, o.streams[o.hd])
             IN  IF r.res # Null
                 THEN r
                 ELSE UnionNext([r.w EXCEPT !.heap[a].hd = @ + 1], a)

\* filter_stream_t(_stream, _p); p is a function from documents to BOOLEAN
FilterObj(u, p) == [kind |-> "filter", stream |-> u, p |-> p]

FilterNext_once(w, a) ==
    LET o == w.heap[a]
        r == StreamNext(w, o.stream)
    IN  IF r.res = Null
        THEN r
        ELSE IF o.p[r.res]
             THEN [res |-> r.res, w |-> Applied(r.w, a, r.res)]
             ELSE [res |-> Null, w |-> Applied(r.w, a, r.res)]

\* filter_stream_t::next
FilterNext(w, a) ==
    LET o == w.heap[a]
        r == StreamNext(w, o.stream)
    IN  IF r.res = Null
        THEN r
        ELSE IF o.p[r.res]
             THEN [res |-> r.res, w |-> Applied(r.w, a, r.res)]
             ELSE FilterNext(Applied(r.w, a, r.res), a)

\* mapping_stream_t(_stream, _f); f is a function from documents to documents
MappingObj(u, f) == [kind |-> "mapping", stream |-> u, f |-> f]

MappingNext_unmapped(w, a) ==
    LET o == w.heap[a]
        r == StreamNext(w, o.stream)
    IN  IF r.res # Null
        THEN [res |-> r.res, w |-> r.w]
        ELSE r

\* mapping_stream_t::next
MappingNext(w, a) ==
    LET o == w.heap[a]
        r == StreamNext(w, o.stream)
    IN  IF r.res # Null
        THEN [res |-> o.f[r.res], w |-> Applied(r.w, a, r.res)]
        ELSE r

\* substream = f(json): f returns a new stream holding f's documents for json;
\* the result is the world with that stream allocated and bound to substream
ConcatApply(w, a, json) ==
    LET w2 == Alloc(Applied(w, a, json), InMemoryObj(w.heap[a].f[json]), w.heap[a].f[json])
    IN  [w2 EXCEPT !.heap[a].substream = Len(w2.heap)]

ConcatNew_lazy(w, u, f) ==
    Alloc(w, [kind |-> "concat_mapping", stream |-> u, substream |-> NullPtr, f |-> f], <<>>)

\* concat_mapping_stream_t(_stream, _f): the constructor pulls the first
\* document of the upstream; f maps a document to a sequence of documents
ConcatNew(w, u, f) ==
    LET a == Len(w.heap) + 1
        w1 == Alloc(w, [kind |-> "concat_mapping", stream |-> u, substream |-> NullPtr, f |-> f], <<>>)
        r == StreamNext(w1, u)
    IN  IF r.res # Null THEN ConcatApply(r.w, a, r.res) ELSE r.w

ConcatNext_once(w, a) ==
    LET o == w.heap[a]
    IN  IF o.substream = NullPtr
        THEN [res |-> Null, w |-> w]
        ELSE LET r == StreamNext(w, o.substream)
             IN  IF r.res # Null
                 THEN r
                 ELSE LET j == StreamNext(r.w, o.stream)
                      IN  IF j.res # Null
                          THEN [res |-> Null, w |-> ConcatApply(j.w, a, j.res)]
                          ELSE [res |-> Null, w |-> [j.w EXCEPT !.heap[a].substream = NullPtr]]

\* concat_mapping_stream_t::next
ConcatNext(w, a) ==
    LET o == w.heap[a]
    IN  IF o.substream = NullPtr
        THEN [res |-> Null, w |-> w]
        ELSE LET r == StreamNext(w, o.substream)
             IN  IF r.res # Null
                 THEN r
                 ELSE LET j == StreamNext(r.w, o.stream)
                      IN  IF j.res # Null
                          THEN ConcatNext(ConcatApply(j.w, a, j.res), a)
                          ELSE ConcatNext([j.w EXCEPT !.heap[a].substream = NullPtr], a)

\* limit_stream_t(_stream, _limit)
LimitObj(u, n) == [kind |-> "limit", stream |-> u, limit |-> n]

LimitNext_nodec(w, a) ==
    LET o == w.heap[a]
    IN  IF o.limit = 0
        THEN [res |-> Null, w |-> w]
        ELSE StreamNext(w, o.stream)

LimitNext_early(w, a) ==
    LET o == w.heap[a]
    IN  IF o.limit <= 1
        THEN [res |-> Null, w |-> [w EXCEPT !.heap[a].limit = 0]]
        ELSE StreamNext([w EXCEPT !.heap[a].limit = @ - 1], o.stream)

\* limit_stream_t::next
LimitNext(w, a) ==
    LET o == w.heap[a]
    IN  IF o.limit = 0
        THEN [res |-> Null, w |-> w]
        ELSE StreamNext([w EXCEPT !.heap[a].limit = @ - 1], o.stream)

\* json_stream_t::next, the virtual call; the result is recorded in hist
StreamNext(w, a) ==
    LET k == w.heap[a].kind
        r == CASE k = "in_memory" -> InMemoryNext(w, a)
               [] k = "mux_stream" -> MuxStreamNext(w, a)
               [] k = "union" -> UnionNext(w, a)
               [] k = "filter" -> FilterNext(w, a)
               [] k = "mapping" -> MappingNext(w, a)
               [] k = "concat_mapping" -> ConcatNext(w, a)
               [] k = "limit" -> LimitNext(w, a)
    IN  [res |-> r.res, w |-> [r.w EXCEPT !.hist[a] = Append(@, r.res)]]

SetWorld(w) == heap' = w.heap /\ hist' = w.hist /\ given' = w.given /\ apps' = w.apps

(* ----------------------------- scope stack ---------------------------- *)
Names == {"x", "y"}
\* the payloads T
Vals == 1..NVals
\* std::map<std::string, T>()
EmptyMap == [n \in {} |-> 0]
Maps == UNION {[D -> Vals] : D \in SUBSET Names}
\* map[name] = t
MapPut(m, name, t) == [k \in DOMAIN m \cup {name} |-> IF k = name THEN t ELSE m[k]]
\* what get() yields when it falls out of its loop: unreachable(...)
Unreachable == 0

PutInScope_bound(s, name, t) ==
    LET holders == {i \in 1..Len(s) : name \in DOMAIN s[i]}
        i == IF holders = {} THEN 1 ELSE CHOOSE j \in holders : \A k \in holders : j <= k
    IN  [s EXCEPT ![i] = MapPut(@, name, t)]

\* variable_scope_t::put_in_scope, past its rassert
PutInScope(s, name, t) == [s EXCEPT ![1] = MapPut(@, name, t)]

RECURSIVE Get(_, _)
Get_oldest(s, name) ==
    IF s = <<>> THEN Unreachable
    ELSE IF name \in DOMAIN s[Len(s)] THEN s[Len(s)][name]
    ELSE Get(SubSeq(s, 1, Len(s) - 1), name)

\* variable_scope_t::get: scopes.begin() is the newest frame
Get(s, name) ==
    IF s = <<>> THEN Unreachable
    ELSE IF name \in DOMAIN Head(s) THEN Head(s)[name]
    ELSE Get(Tail(s), name)

IsInScope_newest(s, name) == s # <<>> /\ name \in DOMAIN Head(s)

RECURSIVE IsInScope(_, _)
\* variable_scope_t::is_in_scope
IsInScope(s, name) ==
    IF s = <<>> THEN FALSE
    ELSE IF name \in DOMAIN Head(s) THEN TRUE
    ELSE IsInScope(Tail(s), name)

\* variable_scope_t::push
Push(s) == <<EmptyMap>> \o s

\* variable_scope_t::pop
Pop(s) == Tail(s)

InsertAbsent_overwrite(map, frame) ==
    [k \in DOMAIN map \cup DOMAIN frame |-> IF k \in DOMAIN frame THEN frame[k] ELSE map[k]]

\* the inner loop of dump: insert the entries of one frame that map lacks
InsertAbsent(map, frame) ==
    [k \in DOMAIN map \cup DOMAIN frame |-> IF k \in DOMAIN map THEN map[k] ELSE frame[k]]

RECURSIVE DumpFrames(_, _)
\* the outer loop of dump, from scopes.begin()
DumpFrames(s, map) ==
    IF s = <<>> THEN map ELSE DumpFrames(Tail(s), InsertAbsent(map, Head(s)))

\* map->clear()
MapClear(map) == [k \in {} |-> 0]

\* variable_scope_t::dump: map->clear(), then the loops
Dump(s, map) == DumpFrames(s, MapClear(map))

(* ------------------------- implicit value stack ----------------------- *)
\* boost::optional<T>()
NoValue == 0
\* implicit_value_t(): the constructor pushes one empty frame
ImplicitNew == <<NoValue>>
\* implicit_value_t::push()
IPush(s) == <<NoValue>> \o s
\* implicit_value_t::push(t)
IPushValue(s, t) == <<t>> \o s
\* implicit_value_t::pop
IPop(s) == Tail(s)
HasValue_anyframe(s) == \E i \in 1..Len(s) : s[i] # NoValue

\* implicit_value_t::has_value, on a stack with a frame
HasValue(s) == Head(s) # NoValue
\* implicit_value_t::get_value, on a stack whose front holds a value
GetValue(s) == Head(s)

(* ------------------- evaluator steps on streams ----------------------- *)
NewInMemory(s) ==
    /\ fault = "none"
    /\ SetWorld(Alloc(World, InMemoryObj(s), s))
    /\ roots' = roots \cup {Len(heap) + 1}
    /\ UNCHANGED scopeVars

NewMultiplexer(u) ==
    /\ fault = "none"
    /\ u \in roots
    /\ SetWorld(Alloc(World, MultiplexerObj(u), <<>>))
    /\ roots' = roots \ {u}
    /\ UNCHANGED scopeVars

NewMuxStream(m) ==
    /\ fault = "none"
    /\ m \in 1..Len(heap)
    /\ heap[m].kind = "multiplexer"
    /\ SetWorld(Alloc(World, MuxStreamObj(m), <<>>))
    /\ roots' = roots \cup {Len(heap) + 1}
    /\ UNCHANGED scopeVars

\* the evaluator builds a union of streams it holds
NewUnion(list) ==
    /\ fault = "none"
    /\ \A i \in 1..Len(list) : list[i] \in roots
    /\ \A i, j \in 1..Len(list) : i # j => list[i] # list[j]
    /\ SetWorld(Alloc(World, UnionObj(list), <<>>))
    /\ roots' = (roots \ {list[i] : i \in 1..Len(list)}) \cup {Len(heap) + 1}
    /\ UNCHANGED scopeVars

NewFilter(u, p) ==
    /\ fault = "none"
    /\ u \in roots
    /\ SetWorld(Alloc(World, FilterObj(u, p), <<>>))
    /\ roots' = (roots \ {u}) \cup {Len(heap) + 1}
    /\ UNCHANGED scopeVars

NewMapping(u, f) ==
    /\ fault = "none"
    /\ u \in roots
    /\ SetWorld(Alloc(World, MappingObj(u, f), <<>>))
    /\ roots' = (roots \ {u}) \cup {Len(heap) + 1}
    /\ UNCHANGED scopeVars

NewConcatMapping(u, f) ==
    /\ fault = "none"
    /\ u \in roots
    /\ SetWorld(ConcatNew(World, u, f))
    /\ roots' = (roots \ {u}) \cup {Len(heap) + 1}
    /\ UNCHANGED scopeVars

NewLimit_unchecked(u, n) ==
    /\ fault = "none"
    /\ u \in roots
    /\ SetWorld(Alloc(World, LimitObj(u, n), <<n>>))
    /\ roots' = (roots \ {u}) \cup {Len(heap) + 1}
    /\ ret' = [op |-> "limit_stream_t", limit |-> n]
    /\ UNCHANGED <<scopes, binds, iscopes, marks, sentinels, exc, fault>>

\* limit_stream_t(_stream, _limit): guarantee(limit >= 0) ends the program;
\* ret records the limit the constructor was called with
NewLimit(u, n) ==
    /\ fault = "none"
    /\ u \in roots
    /\ IF n >= 0
       THEN /\ SetWorld(Alloc(World, LimitObj(u, n), <<n>>))
            /\ roots' = (roots \ {u}) \cup {Len(heap) + 1}
            /\ UNCHANGED fault
       ELSE /\ fault' = "guarantee"
            /\ UNCHANGED streamVars
    /\ ret' = [op |-> "limit_stream_t", limit |-> n]
    /\ UNCHANGED <<scopes, binds, iscopes, marks, sentinels, exc>>

\* the evaluator releases its last shared_ptr to a stream_t of a multiplexer:
\* ~json_stream_t runs and the consumer is gone; the multiplexer, which holds
\* no pointer to its consumers, is left as it is.  The record stays in heap as
\* the observation of the index the consumer had reached.
DestroyMuxStream(a) ==
    /\ fault = "none"
    /\ a \in roots
    /\ heap[a].kind = "mux_stream"
    /\ roots' = roots \ {a}
    /\ UNCHANGED <<heap, hist, given, apps>>
    /\ UNCHANGED scopeVars

\* the evaluator calls next() on a stream it holds
CallNext(a) ==
    /\ fault = "none"
    /\ a \in roots
    /\ NullCount(hist[a]) < MaxNulls
    /\ SetWorld(StreamNext(World, a).w)
    /\ UNCHANGED roots
    /\ UNCHANGED scopeVars

(* ------------------------------ type checking ------------------------- *)
\* enum term_type_t
TermTypes == {"TERM_TYPE_JSON", "TERM_TYPE_STREAM", "TERM_TYPE_VIEW", "TERM_TYPE_ARBITRARY"}

\* the terms whose type needs no subterm: literals, tables, Error and
\* variable references
Terms ==
    {[kind |-> k, name |-> ""] : k \in {"Literal", "Table", "Error", "GetByKey"}}
        \cup {[kind |-> "Var", name |-> n] : n \in Names}

\* get_term_type(t, env): the type of term t under the scope stack s of env,
\* or no type when t refers to a variable that is not in scope
GetTermType(t, s) ==
    CASE t.kind = "Literal" -> [ok |-> TRUE, type |-> "TERM_TYPE_JSON"]
      [] t.kind = "GetByKey" -> [ok |-> TRUE, type |-> "TERM_TYPE_JSON"]
      [] t.kind = "Table" -> [ok |-> TRUE, type |-> "TERM_TYPE_VIEW"]
      [] t.kind = "Error" -> [ok |-> TRUE, type |-> "TERM_TYPE_ARBITRARY"]
      [] t.kind = "Var" ->
            IF IsInScope(s, t.name)
            THEN [ok |-> TRUE, type |-> Get(s, t.name)]
            ELSE [ok |-> FALSE, type |-> "none"]

TypeAccepted_symmetric(actual, expected) ==
    \/ actual = expected
    \/ actual = "TERM_TYPE_ARBITRARY"
    \/ expected = "TERM_TYPE_ARBITRARY"
    \/ actual = "TERM_TYPE_VIEW" /\ expected = "TERM_TYPE_STREAM"

\* the test check_term_type makes of the inferred type against the expected one
TypeAccepted(actual, expected) ==
    \/ actual = expected
    \/ actual = "TERM_TYPE_ARBITRARY"
    \/ actual = "TERM_TYPE_VIEW" /\ expected = "TERM_TYPE_STREAM"

\* check_term_type(t, expected, env): returns, or throws bad_query
CheckTermType(t, expected, s) ==
    LET a == GetTermType(t, s)
    IN  IF a.ok /\ TypeAccepted(a.type, expected) THEN "ok" ELSE "bad_query"

(* ----------------------- steps on the scope stack ---------------------- *)
Running == fault = "none" /\ exc = 0

\* observation kept beside put_in_scope: the binding made in the frame at this depth
BindsPut(name, t) ==
    [binds EXCEPT ![name] =
        IF @ # <<>> /\ Head(@).depth = Len(scopes)
        THEN <<[depth |-> Len(scopes), val |-> t]>> \o Tail(@)
        ELSE <<[depth |-> Len(scopes), val |-> t]>> \o @]
\* observation kept beside pop: the bindings made in the popped frame end
BindsPop ==
    [n \in Names |->
        IF binds[n] # <<>> /\ Head(binds[n]).depth = Len(scopes) THEN Tail(binds[n]) ELSE binds[n]]

\* put_in_scope(name, t); rassert(!scopes.empty()) ends the program
ScopePut(name, t) ==
    /\ Running
    /\ IF scopes = <<>>
       THEN /\ fault' = "rassert"
            /\ UNCHANGED <<scopes, binds, ret>>
       ELSE /\ scopes' = PutInScope(scopes, name, t)
            /\ binds' = BindsPut(name, t)
            /\ ret' = [op |-> "put_in_scope", name |-> name, val |-> t]
            /\ UNCHANGED fault
    /\ UNCHANGED <<iscopes, marks, sentinels, exc>>
    /\ UNCHANGED streamVars

\* get(name); unreachable(...) ends the program
ScopeGet(name) ==
    /\ Running
    /\ ret' = [op |-> "get", name |-> name, val |-> Get(scopes, name)]
    /\ fault' = IF Get(scopes, name) = Unreachable THEN "unreachable" ELSE fault
    /\ UNCHANGED <<scopes, binds, iscopes, marks, sentinels, exc>>
    /\ UNCHANGED streamVars

ScopeIsInScope(name) ==
    /\ Running
    /\ ret' = [op |-> "is_in_scope", name |-> name, val |-> IsInScope(scopes, name)]
    /\ UNCHANGED <<scopes, binds, iscopes, marks, sentinels, exc, fault>>
    /\ UNCHANGED streamVars

ScopePush ==
    /\ Running
    /\ Len(scopes) < MaxDepth
    /\ scopes' = Push(scopes)
    /\ ret' = [op |-> "push"]
    /\ UNCHANGED <<binds, iscopes, marks, sentinels, exc, fault>>
    /\ UNCHANGED streamVars

\* pop(), called with a frame to pop
ScopePop ==
    /\ Running
    /\ scopes # <<>>
    /\ scopes' = Pop(scopes)
    /\ binds' = BindsPop
    /\ ret' = [op |-> "pop"]
    /\ UNCHANGED <<iscopes, marks, sentinels, exc, fault>>
    /\ UNCHANGED streamVars

\* dump(&map), map holding prior
ScopeDump(prior) ==
    /\ Running
    /\ ret' = [op |-> "dump", prior |-> prior, map |-> Dump(scopes, prior)]
    /\ UNCHANGED <<scopes, binds, iscopes, marks, sentinels, exc, fault>>
    /\ UNCHANGED streamVars

\* check_term_type(t, expected, env) under the scope stack of env
TypeCheck(t, expected) ==
    /\ Running
    /\ ret' = [op |-> "check_term_type", term |-> t, expected |-> expected,
               actual |-> GetTermType(t, scopes).type,
               res |-> CheckTermType(t, expected, scopes)]
    /\ UNCHANGED <<scopes, binds, iscopes, marks, sentinels, exc, fault>>
    /\ UNCHANGED streamVars

(* ------------------- steps on the implicit value stack ---------------- *)
\* what has_value() and get_value() show of stack s
Observe(s) ==
    IF s = <<>> THEN <<"no frame">>
    ELSE IF HasValue(s) THEN <<"value", GetValue(s)>> ELSE <<"no value">>

\* push(); MaxDepth frames at most on top of the constructor's
ImplicitPush ==
    /\ Running
    /\ Len(iscopes) <= MaxDepth
    /\ iscopes' = IPush(iscopes)
    /\ marks' = <<Observe(iscopes)>> \o marks
    /\ ret' = [op |-> "push"]
    /\ UNCHANGED <<scopes, binds, sentinels, exc, fault>>
    /\ UNCHANGED streamVars

ImplicitPushValue(t) ==
    /\ Running
    /\ Len(iscopes) <= MaxDepth
    /\ iscopes' = IPushValue(iscopes, t)
    /\ marks' = <<Observe(iscopes)>> \o marks
    /\ ret' = [op |-> "push_value", val |-> t]
    /\ UNCHANGED <<scopes, binds, sentinels, exc, fault>>
    /\ UNCHANGED streamVars

\* pop(), called with a frame to pop; the frame may be the constructor's
ImplicitPop ==
    /\ Running
    /\ iscopes # <<>>
    /\ iscopes' = IPop(iscopes)
    /\ marks' = IF marks = <<>> THEN marks ELSE Tail(marks)
    /\ ret' = [op |-> "pop", before |-> IF marks = <<>> THEN <<"no frame">> ELSE Head(marks)]
    /\ UNCHANGED <<scopes, binds, sentinels, exc, fault>>
    /\ UNCHANGED streamVars

\* has_value(); scopes.front() of an empty deque is undefined: either answer
ImplicitHasValue ==
    /\ Running
    /\ IF iscopes = <<>>
       THEN \E b \in BOOLEAN : ret' = [op |-> "has_value", val |-> b]
       ELSE ret' = [op |-> "has_value", val |-> HasValue(iscopes)]
    /\ UNCHANGED <<scopes, binds, iscopes, marks, sentinels, exc, fault>>
    /\ UNCHANGED streamVars

\* get_value(); front() of an empty deque and * of an empty optional are
\* undefined: any payload
ImplicitGetValue ==
    /\ Running
    /\ IF iscopes = <<>> \/ ~HasValue(iscopes)
       THEN \E t \in Vals : ret' = [op |-> "get_value", val |-> t]
       ELSE ret' = [op |-> "get_value", val |-> GetValue(iscopes)]
    /\ UNCHANGED <<scopes, binds, iscopes, marks, sentinels, exc, fault>>
    /\ UNCHANGED streamVars

(* ------------------------ steps of the sentinels ---------------------- *)
\* new_scope_t(parent): the constructor pushes
EnterScope ==
    /\ Running
    /\ Len(sentinels) < MaxDepth
    /\ scopes' = Push(scopes)
    /\ sentinels' = <<[kind |-> "new_scope_t", saved |-> scopes]>> \o sentinels
    /\ ret' = [op |-> "enter"]
    /\ UNCHANGED <<binds, iscopes, marks, exc, fault>>
    /\ UNCHANGED streamVars

\* impliciter_t(parent)
EnterImplicit ==
    /\ Running
    /\ Len(sentinels) < MaxDepth
    /\ iscopes' = IPush(iscopes)
    /\ marks' = <<Observe(iscopes)>> \o marks
    /\ sentinels' = <<[kind |-> "impliciter_t", saved |-> iscopes]>> \o sentinels
    /\ ret' = [op |-> "enter"]
    /\ UNCHANGED <<scopes, binds, exc, fault>>
    /\ UNCHANGED streamVars

\* impliciter_t(parent, t)
EnterImplicitValue(t) ==
    /\ Running
    /\ Len(sentinels) < MaxDepth
    /\ iscopes' = IPushValue(iscopes, t)
    /\ marks' = <<Observe(iscopes)>> \o marks
    /\ sentinels' = <<[kind |-> "impliciter_t", saved |-> iscopes]>> \o sentinels
    /\ ret' = [op |-> "enter"]
    /\ UNCHANGED <<scopes, binds, exc, fault>>
    /\ UNCHANGED streamVars

Destroy_nopop(by) ==
    /\ sentinels # <<>>
    /\ UNCHANGED <<scopes, binds, iscopes, marks>>
    /\ sentinels' = Tail(sentinels)
    /\ ret' = [op |-> "leave", by |-> by, kind |-> Head(sentinels).kind, saved |-> Head(sentinels).saved]
    /\ UNCHANGED fault
    /\ UNCHANGED streamVars

\* ~new_scope_t() or ~impliciter_t() of the innermost sentinel: the destructor
\* pops; by tells how the region is left, "end" or "exception"
Destroy(by) ==
    /\ sentinels # <<>>
    /\ IF Head(sentinels).kind = "new_scope_t"
       THEN /\ scopes' = Pop(scopes)
            /\ binds' = BindsPop
            /\ UNCHANGED <<iscopes, marks>>
       ELSE /\ iscopes' = IPop(iscopes)
            /\ marks' = Tail(marks)
            /\ UNCHANGED <<scopes, binds>>
    /\ sentinels' = Tail(sentinels)
    /\ ret' = [op |-> "leave", by |-> by, kind |-> Head(sentinels).kind, saved |-> Head(sentinels).saved]
    /\ UNCHANGED fault
    /\ UNCHANGED streamVars

\* control leaves the innermost region at its end
LeaveRegion == Running /\ Destroy("end") /\ UNCHANGED exc

\* an exception is thrown that is caught k regions further out
Throw(k) ==
    /\ Running
    /\ k \in 1..Len(sentinels)
    /\ exc' = k
    /\ ret' = [op |-> "throw"]
    /\ UNCHANGED <<scopes, binds, iscopes, marks, sentinels, fault>>
    /\ UNCHANGED streamVars

\* stack unwinding destroys the innermost sentinel
Unwind ==
    /\ fault = "none"
    /\ exc > 0
    /\ Destroy("exception")
    /\ exc' = exc - 1

Init ==
    /\ heap = <<>>
    /\ hist = <<>>
    /\ given = <<>>
    /\ apps = <<>>
    /\ roots = {}
    /\ scopes = <<>>
    /\ binds = [n \in Names |-> <<>>]
    /\ iscopes = ImplicitNew
    /\ marks = <<>>
    /\ sentinels = <<>>
    /\ exc = 0
    /\ ret = [op |-> "new"]
    /\ fault = "none"

(* ------------------------- multiplexer harness ------------------------ *)
Consumers(m) == {a \in 1..Len(heap) : heap[a].kind = "mux_stream" /\ heap[a].parent = m}

MuxSource == heap = <<>> /\ \E s \in SourceSeqs : NewInMemory(s)
MuxWrap == Len(heap) = 1 /\ NewMultiplexer(1)
MuxConsumer == \E m \in 1..Len(heap) : Cardinality(Consumers(m)) < MaxConsumers /\ NewMuxStream(m)
MuxCall == \E a \in roots : heap[a].kind = "mux_stream" /\ CallNext(a)

NextMux == MuxSource \/ MuxWrap \/ MuxConsumer \/ MuxCall
SpecMux == Init /\ [][NextMux]_vars

(* ------------------------- concat-map harness ------------------------- *)
\* the functions given to concat_mapping_stream_t: document d yields l[d]
\* documents 10 d + 1, ..., 10 d + l[d]
ConcatFns == {[d \in Docs |-> DocSeq(10 * d, l[d])] : l \in [Docs -> 0..MaxSub]}

ConcatSource == heap = <<>> /\ \E s \in SourceSeqs : NewInMemory(s)
ConcatBuild == Len(heap) = 1 /\ \E f \in ConcatFns : NewConcatMapping(1, f)
ConcatCall == \E a \in roots : heap[a].kind = "concat_mapping" /\ CallNext(a)

NextConcat == ConcatSource \/ ConcatBuild \/ ConcatCall
SpecConcat == Init /\ [][NextConcat]_vars

(* ---------------------------- limit harness --------------------------- *)
LimitSource == heap = <<>> /\ \E s \in SourceSeqs : NewInMemory(s)
\* limits from the refused -2 and -1 to one more than the longest source
LimitBuild == Len(heap) = 1 /\ \E n \in (-2)..(MaxLen + 1) : NewLimit(1, n)
LimitCall == \E a \in roots : heap[a].kind = "limit" /\ CallNext(a)

NextLimit == LimitSource \/ LimitBuild \/ LimitCall
SpecLimit == Init /\ [][NextLimit]_vars

(* ---------------------------- union harness --------------------------- *)
\* the member streams hold different documents: 10 a + 1, ... at address a
UnionSource ==
    /\ Len(heap) < MaxStreams
    /\ \A a \in 1..Len(heap) : heap[a].kind = "in_memory"
    /\ \E n \in 0..MaxLen : NewInMemory(DocSeq(10 * (Len(heap) + 1), n))
\* any list of the streams built so far, each at most once, in any order
UnionBuild ==
    /\ \A a \in 1..Len(heap) : heap[a].kind = "in_memory"
    /\ \E k \in 0..Len(heap) : \E list \in [1..k -> roots] : NewUnion(list)
UnionCall == \E a \in roots : heap[a].kind = "union" /\ CallNext(a)

NextUnion == UnionSource \/ UnionBuild \/ UnionCall
SpecUnion == Init /\ [][NextUnion]_vars

(* ------------------ multiplexer with consumers that end --------------- *)
\* as the multiplexer harness, with consumers that are dropped while others live
MuxDrop == \E a \in roots : DestroyMuxStream(a)

NextMuxLife == MuxSource \/ MuxWrap \/ MuxConsumer \/ MuxCall \/ MuxDrop
SpecMuxLife == Init /\ [][NextMuxLife]_vars

(* ---------------------------- filter harness -------------------------- *)
FilterSource == heap = <<>> /\ \E s \in SourceSeqs : NewInMemory(s)
FilterBuild == Len(heap) = 1 /\ \E p \in [Docs -> BOOLEAN] : NewFilter(1, p)
FilterCall == \E a \in roots : heap[a].kind = "filter" /\ CallNext(a)

NextFilter == FilterSource \/ FilterBuild \/ FilterCall
SpecFilter == Init /\ [][NextFilter]_vars

(* --------------------------- mapping harness -------------------------- *)
\* the functions given to mapping_stream_t: any table from documents to the
\* documents 11, ..., 10 + MaxLen
MapFns == [Docs -> {10 + d : d \in Docs}]

MappingSource == heap = <<>> /\ \E s \in SourceSeqs : NewInMemory(s)
MappingBuild == Len(heap) = 1 /\ \E f \in MapFns : NewMapping(1, f)
MappingCall == \E a \in roots : heap[a].kind = "mapping" /\ CallNext(a)

NextMapping == MappingSource \/ MappingBuild \/ MappingCall
SpecMapping == Init /\ [][NextMapping]_vars

(* ------------------------- composition harness ------------------------ *)
\* Operators built over one another.  Documents stay in Docs, so that every
\* predicate and function can be applied to whatever reaches it.
Operators == {a \in 1..Len(heap) : heap[a].kind \notin {"in_memory", "multiplexer"}}
Streams == {a \in 1..Len(heap) : heap[a].kind # "multiplexer"}
AlgPreds == {[d \in Docs |-> d % 2 = 0], [d \in Docs |-> d > 1]}
AlgMapFns == {[d \in Docs |-> (d % MaxLen) + 1]}
AlgConcatFns == {[d \in Docs |-> DocSeq(0, d % (MaxSub + 1))]}
\* the evaluator builds the whole composition before it pulls from it
CanBuild ==
    /\ fault = "none"
    /\ Cardinality(Operators) < MaxOps
    /\ \A a \in roots : hist[a] = <<>>

AlgSource == heap = <<>> /\ \E s \in SourceSeqs : NewInMemory(s)
AlgFilter == CanBuild /\ \E u \in roots : \E p \in AlgPreds : NewFilter(u, p)
AlgMapping == CanBuild /\ \E u \in roots : \E f \in AlgMapFns : NewMapping(u, f)
AlgConcat == CanBuild /\ \E u \in roots : \E f \in AlgConcatFns : NewConcatMapping(u, f)
AlgLimit == CanBuild /\ \E u \in roots : \E n \in {0, 1, MaxLen} : NewLimit(u, n)
AlgUnion == CanBuild /\ \E k \in 0..Cardinality(roots) : \E list \in [1..k -> roots] : NewUnion(list)
AlgMultiplexer == CanBuild /\ \E u \in roots : NewMultiplexer(u)
AlgMuxStream ==
    /\ CanBuild
    /\ \E m \in 1..Len(heap) : Cardinality(Consumers(m)) < MaxConsumers /\ NewMuxStream(m)
AlgCall == \E a \in roots : CallNext(a)

NextAlgebra ==
    \/ AlgSource \/ AlgFilter \/ AlgMapping \/ AlgConcat \/ AlgLimit
    \/ AlgUnion \/ AlgMultiplexer \/ AlgMuxStream \/ AlgCall
SpecAlgebra == Init /\ [][NextAlgebra]_vars

(* ----------------- composition with consumers that stop --------------- *)
\* the same compositions, pulled by an evaluator that stops calling next() on a
\* stream once that stream has returned the sentinel to it
StopCall == \E a \in roots : NullCount(hist[a]) = 0 /\ CallNext(a)

NextStopping ==
    \/ AlgSource \/ AlgFilter \/ AlgMapping \/ AlgConcat \/ AlgLimit
    \/ AlgUnion \/ AlgMultiplexer \/ AlgMuxStream \/ StopCall
SpecStopping == Init /\ [][NextStopping]_vars

(* -------------------------- type check harness ------------------------ *)
\* one frame of typed variables, and terms checked against expected types
TcEnter == scopes = <<>> /\ ScopePush
TcBind == \E n \in Names : \E ty \in TermTypes : ScopePut(n, ty)
TcCheck == \E t \in Terms : \E expected \in TermTypes : TypeCheck(t, expected)

NextTypecheck == TcEnter \/ TcBind \/ TcCheck
SpecTypecheck == Init /\ [][NextTypecheck]_vars

(* -------------------------- scope stack harness ----------------------- *)
ScPush == ScopePush
ScPop == ScopePop
ScPut == \E n \in Names : \E v \in Vals : ScopePut(n, v)
ScGet == \E n \in Names : ScopeGet(n)
ScIsInScope == \E n \in Names : ScopeIsInScope(n)
ScDump == \E prior \in Maps : ScopeDump(prior)

NextScope == ScPush \/ ScPop \/ ScPut \/ ScGet \/ ScIsInScope \/ ScDump
SpecScope == Init /\ [][NextScope]_vars

(* ------------------------ implicit value harness ---------------------- *)
ImPush == ImplicitPush
ImPushValue == \E v \in Vals : ImplicitPushValue(v)
ImPop == ImplicitPop
ImHasValue == ImplicitHasValue
ImGetValue == ImplicitGetValue

NextImplicit == ImPush \/ ImPushValue \/ ImPop \/ ImHasValue \/ ImGetValue
SpecImplicit == Init /\ [][NextImplicit]_vars

(* --------------------------- sentinel harness ------------------------- *)
\* lexical regions guarded by sentinels, bindings made inside them, and
\* exceptions leaving them
SeEnterScope == EnterScope
SeEnterImplicit == EnterImplicit
SeEnterImplicitValue == \E v \in Vals : EnterImplicitValue(v)
SePut == scopes # <<>> /\ \E n \in Names : \E v \in Vals : ScopePut(n, v)
SeLeave == LeaveRegion
SeThrow == \E k \in 1..MaxDepth : Throw(k)
SeUnwind == Unwind

NextSentinel ==
    \/ SeEnterScope \/ SeEnterImplicit \/ SeEnterImplicitValue \/ SePut
    \/ SeLeave \/ SeThrow \/ SeUnwind
SpecSentinel == Init /\ [][NextSentinel]_vars

(* ----------------------- multiplexer properties ----------------------- *)
MuxStreams == {a \in 1..Len(heap) : heap[a].kind = "mux_stream"}
Multiplexers == {m \in 1..Len(heap) : heap[m].kind = "multiplexer"}
\* the sequence the upstream of multiplexer m would produce
UpstreamSeq(m) == given[heap[m].stream]

\* C1: whatever the interleaving of next() calls, the documents a consumer of
\* a multiplexer has received so far are a prefix of the upstream's sequence S,
\* and a consumer that has been given the exhaustion sentinel has received
\* exactly S.
C1_MuxConsistency ==
    \A a \in MuxStreams :
        /\ IsPrefix(DocsOf(hist[a]), UpstreamSeq(heap[a].parent))
        /\ NullCount(hist[a]) > 0 => DocsOf(hist[a]) = UpstreamSeq(heap[a].parent)

\* one consumer is exhausted while another has received only the first of two
\* different documents
C1_Witness ==
    \E a, b \in MuxStreams :
        /\ a # b /\ heap[a].parent = heap[b].parent
        /\ Len(UpstreamSeq(heap[a].parent)) >= 2
        /\ UpstreamSeq(heap[a].parent)[1] # UpstreamSeq(heap[a].parent)[2]
        /\ NullCount(hist[a]) > 0
        /\ Len(hist[b]) = 1 /\ hist[b][1] # Null

\* C2: the documents the upstream has returned to the multiplexer are, in
\* order and each once, exactly the buffered documents and a prefix of the
\* upstream's sequence (none pulled twice, none skipped), however many
\* consumers read them; once a consumer is exhausted all of them were pulled.
C2_SingleProduction ==
    \A m \in Multiplexers :
        /\ heap[m].data = DocsOf(hist[heap[m].stream])
        /\ IsPrefix(heap[m].data, UpstreamSeq(m))
        /\ \A a \in Consumers(m) : NullCount(hist[a]) > 0 => heap[m].data = UpstreamSeq(m)

\* two consumers have each read both documents of a two-document upstream
C2_Witness ==
    \E m \in Multiplexers :
        /\ Len(UpstreamSeq(m)) >= 2
        /\ \E a, b \in Consumers(m) :
              a # b /\ Len(DocsOf(hist[a])) >= 2 /\ Len(DocsOf(hist[b])) >= 2

(* ------------------------ concat-map properties ----------------------- *)
ConcatStreams == {a \in 1..Len(heap) : heap[a].kind = "concat_mapping"}
RECURSIVE FlatMap(_, _)
\* f(d1) ++ f(d2) ++ ... ++ f(dk)
FlatMap(f, s) == IF s = <<>> THEN <<>> ELSE f[Head(s)] \o FlatMap(f, Tail(s))

\* C4: what a concat_mapping_stream_t over upstream d1..dk has returned so far
\* is a prefix of f(d1) ++ ... ++ f(dk), and once it returns the sentinel it
\* has returned all of it: empty substreams add nothing and end nothing, an
\* empty upstream gives the empty result.
C4_ConcatMapOrder ==
    \A a \in ConcatStreams :
        LET all == FlatMap(heap[a].f, given[heap[a].stream])
        IN  /\ IsPrefix(DocsOf(hist[a]), all)
            /\ NullCount(hist[a]) > 0 => DocsOf(hist[a]) = all

\* drained, with an empty substream between two non-empty ones
C4_Witness ==
    \E a \in ConcatStreams :
        LET s == given[heap[a].stream]
        IN  /\ Len(s) >= 3
            /\ heap[a].f[s[1]] # <<>> /\ heap[a].f[s[2]] = <<>> /\ heap[a].f[s[3]] # <<>>
            /\ NullCount(hist[a]) > 0

(* -------------------------- limit properties -------------------------- *)
LimitStreams == {a \in 1..Len(heap) : heap[a].kind = "limit"}
Min(x, y) == IF x <= y THEN x ELSE y

\* C5: of the calls made to a limit_stream_t built with limit n, exactly the
\* first n are forwarded to the upstream, so the upstream is called at most n
\* times, and every call after the n-th returns the sentinel.
C5_LimitPurity ==
    \A a \in LimitStreams :
        LET n == given[a][1]
        IN  /\ Len(hist[heap[a].stream]) = Min(Len(hist[a]), n)
            /\ Len(hist[heap[a].stream]) <= n
            /\ \A i \in (n + 1)..Len(hist[a]) : hist[a][i] = Null

\* limit 1 over three documents or more, called three times
C5_Witness ==
    \E a \in LimitStreams :
        /\ given[a][1] = 1
        /\ Len(given[heap[a].stream]) >= 3
        /\ Len(hist[a]) >= 3

(* -------------------------- union properties -------------------------- *)
UnionStreams == {a \in 1..Len(heap) : heap[a].kind = "union"}
RECURSIVE ConcatAll(_)
\* the documents of the streams of list, one stream after the other
ConcatAll(list) == IF list = <<>> THEN <<>> ELSE given[Head(list)] \o ConcatAll(Tail(list))

\* C6: what a union_stream_t over s1..sk has returned so far is a prefix of
\* all of s1, then all of s2, ..., then all of sk, and all of it once the
\* sentinel is returned; a member is pulled only after every earlier member
\* has returned its sentinel.
C6_UnionOrdering ==
    \A a \in UnionStreams :
        LET list == heap[a].streams
        IN  /\ IsPrefix(DocsOf(hist[a]), ConcatAll(list))
            /\ NullCount(hist[a]) > 0 => DocsOf(hist[a]) = ConcatAll(list)
            /\ \A i, j \in 1..Len(list) :
                  (i < j /\ hist[list[j]] # <<>>) => NullCount(hist[list[i]]) > 0

\* a drained union of two streams of two documents or more each
C6_Witness ==
    \E a \in UnionStreams :
        /\ Len(heap[a].streams) = 2
        /\ Len(given[heap[a].streams[1]]) >= 2
        /\ Len(given[heap[a].streams[2]]) >= 2
        /\ NullCount(hist[a]) > 0

(* ------------------------ exhaustion is sticky ------------------------ *)
Sticky(h) == \A i, j \in 1..Len(h) : (i < j /\ h[i] = Null) => h[j] = Null

\* C3: for every stream of every kind, built over in-memory streams or over
\* other operators, no document is returned after the exhaustion sentinel.
C3_ExhaustionSticky == \A a \in Streams : Sticky(hist[a])

\* a filter over a mapping over a source: each has returned a document and
\* then the sentinel twice
C3_Witness ==
    \E a \in Streams :
        /\ heap[a].kind = "filter"
        /\ heap[heap[a].stream].kind = "mapping"
        /\ heap[heap[heap[a].stream].stream].kind = "in_memory"
        /\ \A b \in {a, heap[a].stream, heap[heap[a].stream].stream} :
              /\ Len(hist[b]) >= 3
              /\ hist[b][1] # Null
              /\ SubSeq(hist[b], Len(hist[b]) - 1, Len(hist[b])) = <<Null, Null>>

(* -------------------------- scope properties -------------------------- *)
\* C7: when the region of a new_scope_t or impliciter_t is left, at its end
\* or by an exception, the stack is again the stack the sentinel found when it
\* was created: as many frames, and each of them unchanged.  Until then the
\* frames below a live sentinel's frame stay as that sentinel found them.
C7_ScopeBalance ==
    /\ ret.op = "leave" =>
          LET now == IF ret.kind = "new_scope_t" THEN scopes ELSE iscopes
          IN  Len(now) = Len(ret.saved) /\ now = ret.saved
    /\ \A i \in 1..Len(sentinels) :
          LET now == IF sentinels[i].kind = "new_scope_t" THEN scopes ELSE iscopes
              n == Len(sentinels[i].saved)
          IN  Len(now) > n /\ SubSeq(now, Len(now) - n + 1, Len(now)) = sentinels[i].saved

\* an exception has just left a nested new_scope_t, the frame below holds a
\* binding, and the exception goes on to leave the enclosing region
C7_Witness ==
    /\ ret.op = "leave" /\ ret.by = "exception" /\ ret.kind = "new_scope_t"
    /\ sentinels # <<>>
    /\ ret.saved # <<>> /\ DOMAIN Head(ret.saved) # {}
    /\ exc > 0

\* the binding of name that put_in_scope made last in a frame still on the stack
NewestBinding(name) == IF binds[name] = <<>> THEN Unreachable ELSE Head(binds[name]).val

\* C8: after any sequence of push, pop and put_in_scope, get(name) is the
\* value last put for name in the newest frame still on the stack that had a
\* put for name: newer frames shadow older ones, and popping a frame brings
\* the next older binding back, or leaves the name out of scope.
C8_NewestFirstLookup ==
    /\ \A n \in Names : Get(scopes, n) = NewestBinding(n)
    /\ ret.op = "get" => ret.val = NewestBinding(ret.name)

\* get returned the newer of two different bindings of one name
C8_Witness ==
    /\ ret.op = "get"
    /\ Len(binds[ret.name]) >= 2
    /\ binds[ret.name][1].val # binds[ret.name][2].val
    /\ ret.val = binds[ret.name][1].val

\* C9: has_value() and get_value() show the newest frame only.  A new
\* implicit_value_t has one frame and no value; after push() there is no value
\* whatever the older frames hold; after push(v) the value is v; after a pop
\* the stack shows what it showed before the matching push.
C9_ImplicitNoLeak ==
    /\ ret.op = "new" => Len(iscopes) = 1 /\ ~HasValue(iscopes)
    /\ ret.op = "push" => ~HasValue(iscopes)
    /\ ret.op = "push_value" => HasValue(iscopes) /\ GetValue(iscopes) = ret.val
    /\ ret.op = "pop" => Observe(iscopes) = ret.before
    /\ (ret.op = "has_value" /\ iscopes # <<>>) => ret.val = (Head(iscopes) # NoValue)
    /\ (ret.op = "get_value" /\ iscopes # <<>> /\ Head(iscopes) # NoValue) => ret.val = Head(iscopes)

\* push() on top of a frame that holds a value
C9_Witness ==
    /\ ret.op = "push"
    /\ Len(iscopes) >= 2
    /\ iscopes[2] # NoValue

\* C10: dump leaves in the map exactly the names in scope, each with the
\* value get returns for it, whatever the map held before.
C10_DumpAgreesWithLookup ==
    ret.op = "dump" =>
        /\ DOMAIN ret.map = {n \in Names : IsInScope(scopes, n)}
        /\ \A n \in DOMAIN ret.map : ret.map[n] = Get(scopes, n)

\* the map held a name that is not in scope and another value for a name that
\* two frames bind differently
C10_Witness ==
    /\ ret.op = "dump"
    /\ \E n \in DOMAIN ret.prior : ~IsInScope(scopes, n)
    /\ \E n \in DOMAIN ret.prior :
          /\ Len(binds[n]) >= 2
          /\ binds[n][1].val # binds[n][2].val
          /\ ret.prior[n] # binds[n][1].val

(* -------------------------- filter properties ------------------------- *)
FilterStreams == {a \in 1..Len(heap) : heap[a].kind = "filter"}
Last(s) == s[Len(s)]
\* the documents of s that p holds for, in the order of s
Satisfying(s, p) == SelectSeq(s, LAMBDA d : p[d])

\* C11: a filter_stream_t over upstream sequence S with predicate p has
\* returned the documents of the pulled part of S that satisfy p, in order and
\* unchanged, and all such documents of S once it returns the sentinel; a call
\* that returns a document stops pulling at that document; p has been applied
\* once to each pulled document.
C11_FilterSemantics ==
    \A a \in FilterStreams :
        LET u == heap[a].stream
            pulled == DocsOf(hist[u])
        IN  /\ IsPrefix(pulled, given[u])
            /\ DocsOf(hist[a]) = Satisfying(pulled, heap[a].p)
            /\ apps[a] = pulled
            /\ (hist[a] # <<>> /\ Last(hist[a]) # Null) => Last(pulled) = Last(hist[a])
            /\ NullCount(hist[a]) > 0 => DocsOf(hist[a]) = Satisfying(given[u], heap[a].p)

\* drained: the predicate rejects the first and third of four documents
C11_Witness ==
    \E a \in FilterStreams :
        /\ Len(given[heap[a].stream]) = 4
        /\ ~heap[a].p[1] /\ heap[a].p[2] /\ ~heap[a].p[3] /\ heap[a].p[4]
        /\ NullCount(hist[a]) > 0

(* ------------------------ calls after exhaustion ---------------------- *)
\* object a was called again after it had returned the sentinel
CalledAfterSentinel(a) == \E i \in 1..(Len(hist[a]) - 1) : hist[a][i] = Null

\* C12: when the evaluator stops calling next() on a stream that has returned
\* the sentinel to it, no stream of the composition is called after it has
\* returned the sentinel, a multiplexer's upstream under two consumers that
\* both read to the end included.
C12_NoCallAfterExhaustion == \A a \in Streams : ~CalledAfterSentinel(a)

(* --------------------------- put_in_scope ----------------------------- *)
\* this step is a put_in_scope(name, v) that passed its assertion (every step
\* on the scope stack sets ret or fault)
PutStep == ret'.op = "put_in_scope" /\ fault' = fault

\* C13: put_in_scope(name, v) binds name to v in the newest frame, leaves every
\* other name of that frame and every older frame as they were, and the
\* binding an older frame has for name is what get(name) finds again after the
\* newest frame is popped.
C13_PutNewestFrameOnly ==
    [][PutStep =>
        /\ Len(scopes') = Len(scopes)
        /\ DOMAIN scopes'[1] = DOMAIN scopes[1] \cup {ret'.name}
        /\ scopes'[1][ret'.name] = ret'.val
        /\ \A k \in DOMAIN scopes[1] \ {ret'.name} : scopes'[1][k] = scopes[1][k]
        /\ Tail(scopes') = Tail(scopes)
        /\ Get(Pop(scopes'), ret'.name) = Get(Pop(scopes), ret'.name)]_vars

\* the newest frame rebinds x, which it and the older frame bind to another
\* value, and keeps its binding of y
C13_Witness ==
    /\ ret.op = "put_in_scope" /\ ret.name = "x" /\ ret.val = 2
    /\ Len(scopes) = 2
    /\ scopes[1] = [k \in {"x", "y"} |-> 2]
    /\ scopes[2] = [k \in {"x"} |-> 1]

(* ------------------------ limit construction -------------------------- *)
\* C14: limit_stream_t built with a negative limit fails its guarantee and
\* makes no stream; built with n >= 0 it makes the stream without calling the
\* upstream; the limit counter of a stream is never negative.
C14_LimitNonNegative ==
    /\ ret.op = "limit_stream_t" =>
          IF ret.limit < 0
          THEN fault = "guarantee" /\ LimitStreams = {} /\ Len(heap) = 1
          ELSE fault = "none" /\ \E a \in LimitStreams : given[a] = <<ret.limit>>
    /\ fault = "guarantee" => ret.op = "limit_stream_t" /\ ret.limit < 0
    /\ \A a \in LimitStreams :
          /\ heap[a].limit >= 0
          /\ hist[a] = <<>> => hist[heap[a].stream] = <<>> /\ heap[a].limit = given[a][1]

\* the constructor was called with -1 over a source of documents and refused
C14_Witness ==
    /\ ret.op = "limit_stream_t" /\ ret.limit = -1
    /\ fault = "guarantee"
    /\ heap # <<>> /\ heap[1].data # <<>>

(* --------------------------- type checking ---------------------------- *)
\* C15: check_term_type accepts a term of type Arbitrary against every
\* expected type, and against an expected Arbitrary it accepts a term exactly
\* when its type is Arbitrary: a Json, Stream or View term is rejected.
C15_ArbitraryOneWay ==
    (ret.op = "check_term_type" /\ ret.actual \in TermTypes) =>
        /\ ret.actual = "TERM_TYPE_ARBITRARY" => ret.res = "ok"
        /\ ret.expected = "TERM_TYPE_ARBITRARY" =>
              (ret.res = "ok" <=> ret.actual = "TERM_TYPE_ARBITRARY")

\* a variable bound to a stream is checked against an expected Arbitrary and rejected
C15_Witness ==
    /\ ret.op = "check_term_type"
    /\ ret.term.kind = "Var"
    /\ ret.actual = "TERM_TYPE_STREAM"
    /\ ret.expected = "TERM_TYPE_ARBITRARY"
    /\ ret.res = "bad_query"

(* ----------------------- concat-map pull ordering --------------------- *)
\* the substreams f has made for concat_mapping_stream_t a: the objects
\* allocated after it
Substreams(a) == {s \in (a + 1)..Len(heap) : heap[s].kind = "in_memory"}

\* C16: the constructor of concat_mapping_stream_t pulls one document from the
\* upstream and applies f to it before any next(); later the upstream is
\* pulled once each time the current substream returns the sentinel, never
\* earlier; only the newest substream is ever held; f has been applied once to
\* each document pulled from the upstream.
C16_ConcatPullOrder ==
    \A a \in ConcatStreams :
        LET u == heap[a].stream
            subs == Substreams(a)
            done == {s \in subs : NullCount(hist[s]) > 0}
        IN  /\ Len(hist[u]) >= 1
            /\ hist[a] = <<>> => Len(hist[u]) = 1
            /\ apps[a] = DocsOf(hist[u])
            /\ Cardinality(subs) = Len(apps[a])
            /\ \A i \in 1..Len(apps[a]) : given[a + i] = heap[a].f[apps[a][i]]
            /\ Len(hist[u]) = 1 + Cardinality(done)
            /\ \A s \in subs : s # Len(heap) => s \in done
            /\ \A s \in subs : NullCount(hist[s]) <= 1
            /\ heap[a].substream \in {NullPtr, Len(heap)}
            /\ heap[a].substream # NullPtr => heap[a].substream \notin done

\* the first substream has returned the sentinel, the second is being read
C16_Witness ==
    \E a \in ConcatStreams :
        /\ Len(apps[a]) = 2
        /\ Len(hist[a + 1]) > 1 /\ NullCount(hist[a + 1]) = 1
        /\ heap[a].substream = a + 2
        /\ hist[a + 2] # <<>>

(* --------------------------- map one-in-one-out ----------------------- *)
MappingStreams == {a \in 1..Len(heap) : heap[a].kind = "mapping"}

\* C17: each next() on a mapping_stream_t makes one call to the upstream; for a
\* document d of the upstream it returns f(d), f applied once; for the sentinel
\* it returns the sentinel and f is not applied; once the upstream d1..dk is
\* drained the results are f(d1), ..., f(dk), k of them.
C17_MapOneInOneOut ==
    \A a \in MappingStreams :
        LET u == heap[a].stream
            f == heap[a].f
        IN  /\ Len(hist[u]) = Len(hist[a])
            /\ \A i \in 1..Len(hist[a]) :
                  hist[a][i] = IF hist[u][i] = Null THEN Null ELSE f[hist[u][i]]
            /\ apps[a] = DocsOf(hist[u])
            /\ NullCount(hist[a]) > 0 =>
                  /\ Len(DocsOf(hist[a])) = Len(given[u])
                  /\ \A i \in 1..Len(given[u]) : DocsOf(hist[a])[i] = f[given[u][i]]

\* drained over three documents or more, f sending two of them to one result
C17_Witness ==
    \E a \in MappingStreams :
        /\ Len(given[heap[a].stream]) >= 3
        /\ heap[a].f[1] = heap[a].f[2] /\ heap[a].f[3] # heap[a].f[1]
        /\ NullCount(hist[a]) > 0

(* ------------------------------ limit prefix -------------------------- *)
\* C18: what a limit_stream_t with limit n over upstream sequence S has
\* returned is a prefix of S, unchanged, and once the sentinel is returned it
\* is the first min(n, |S|) documents of S.
C18_LimitPrefix ==
    \A a \in LimitStreams :
        LET S == given[heap[a].stream]
            n == given[a][1]
        IN  /\ IsPrefix(DocsOf(hist[a]), S)
            /\ Len(DocsOf(hist[a])) <= n
            /\ NullCount(hist[a]) > 0 => DocsOf(hist[a]) = SubSeq(S, 1, Min(n, Len(S)))

\* limit 2 over four documents, drained
C18_Witness ==
    \E a \in LimitStreams :
        /\ given[a][1] = 2
        /\ Len(given[heap[a].stream]) = 4
        /\ NullCount(hist[a]) > 0
        /\ Len(DocsOf(hist[a])) = 2

(* ------------------------ multiplexer buffer -------------------------- *)
\* the consumers of multiplexer m that exist
LiveConsumers(m) == Consumers(m) \cap roots
\* the largest index among the consumers in S, 0 when there is none
MaxIndex(S) ==
    IF S = {} THEN 0
    ELSE CHOOSE x \in {heap[a].index : a \in S} : \A a \in S : heap[a].index <= x
\* the buffer of m is the upstream's output so far, and a prefix of all of it
BufferIsPrefix(m) ==
    /\ heap[m].data = DocsOf(hist[heap[m].stream])
    /\ IsPrefix(heap[m].data, UpstreamSeq(m))
\* the buffer of multiplexer m does not shrink in this step
BufferGrows(m) == m \in Multiplexers => IsPrefix(heap[m].data, heap'[m].data)

\* C19 as stated: in every state the buffer of a multiplexer is a prefix of
\* the upstream's output, it never shrinks, the index of every consumer that
\* exists is at most its length, and its length is the largest index among the
\* consumers that exist.
C19_BufferInvariant ==
    [][\A m \in Multiplexers' :
          /\ BufferIsPrefix(m)'
          /\ BufferGrows(m)
          /\ \A a \in LiveConsumers(m)' : heap'[a].index <= Len(heap'[m].data)
          /\ Len(heap'[m].data) = MaxIndex(LiveConsumers(m))']_vars

\* C19 amended: as above, with the buffer length equal to the largest index
\* reached by any consumer created so far, destroyed ones included; among the
\* consumers that exist the largest index is at most the buffer length.
C19_BufferInvariantEver ==
    [][\A m \in Multiplexers' :
          /\ BufferIsPrefix(m)'
          /\ BufferGrows(m)
          /\ \A a \in LiveConsumers(m)' : heap'[a].index <= Len(heap'[m].data)
          /\ Len(heap'[m].data) = MaxIndex(Consumers(m))'
          /\ MaxIndex(LiveConsumers(m))' <= Len(heap'[m].data)]_vars

\* a consumer that had read two documents is gone; the one left has read one
C19_Witness ==
    \E m \in Multiplexers :
        \E a \in Consumers(m) \ roots :
            \E b \in LiveConsumers(m) :
                /\ heap[a].index = 2 /\ Len(heap[m].data) = 2
                /\ heap[b].index = 1

(* ---------------------- lookup and bind preconditions ----------------- *)
\* some frame of the stack binds name
SomeFrameBinds(name) == \E i \in 1..Len(scopes) : name \in DOMAIN scopes[i]

\* what the last operation shows of the stack it was called on (get and
\* is_in_scope leave the stack as it was)
LookupAgrees ==
    /\ ret.op = "get" =>
          /\ fault = "unreachable" <=> ~SomeFrameBinds(ret.name)
          /\ fault = "unreachable" <=> ~IsInScope(scopes, ret.name)
          /\ fault = "unreachable" <=> ret.val = Unreachable
    /\ fault = "unreachable" => ret.op = "get"
    /\ ret.op = "is_in_scope" => (ret.val <=> SomeFrameBinds(ret.name))
    /\ fault = "rassert" => scopes = <<>>

\* C20: get(name) reaches unreachable exactly when no frame binds name, which
\* is exactly when is_in_scope(name) is false; is_in_scope leaves the stack as
\* it was; put_in_scope fails its assertion exactly when the stack has no
\* frame, as it has from construction to the first push.
C20_LookupBindPreconditions ==
    [][/\ LookupAgrees'
       /\ ret.op = "new" => scopes = <<>>
       /\ ret'.op = "is_in_scope" => scopes' = scopes
       /\ PutStep => scopes # <<>>
       /\ fault' = "rassert" => scopes = <<>>]_vars

\* get(y) fails under two frames that bind only x
C20_Witness ==
    /\ ret.op = "get" /\ ret.name = "y"
    /\ fault = "unreachable"
    /\ Len(scopes) = 2
    /\ \A i \in 1..2 : DOMAIN scopes[i] = {"x"}

====
